---- MODULE Spec2Model ----
(***************************************************************************)
(* State-machine model of the staking core of BLOOMEXALGO:                 *)
(* contracts/modules/staking/investor_staking.py (StakingManager,          *)
(* StakingPool, StakingPosition),                                          *)
(* contracts/modules/staking/reward_distribution.py (RewardDistributor,    *)
(* RewardEvent), contracts/modules/staking/yield_calculator.py             *)
(* (YieldCalculator).                                                      *)
(*                                                                         *)
(* The specifications share the state: Spec, the StakingManager called by  *)
(* one caller at a time; SpecConc, stake and unstake called from           *)
(* concurrent threads; SpecDist, the RewardDistributor called from         *)
(* concurrent threads; SpecDistSeq, the RewardDistributor called by one    *)
(* caller at a time; SpecCalc, calculate_rewards followed read by read     *)
(* against the clock; SpecYield, the YieldCalculator.                      *)
(*                                                                         *)
(* Units.  Time is counted in ticks, TicksPerDay ticks to a day, so that   *)
(* the sub-day resolution of datetime is visible (timedelta.days is a      *)
(* floor, the lock gate a comparison of instants).  Amounts are whole      *)
(* currency units.  A base_reward_rate is an integer number of             *)
(* thousandths (100 = 0.10), a lock-period multiplier an integer number of *)
(* tenths (12 = 1.2), hence a position's reward_rate an integer number of  *)
(* ten-thousandths (1200 = 0.12).  Rewards, being rounded to six decimals, *)
(* are integer millionths.                                                 *)
(***************************************************************************)
EXTENDS Integers, Sequences, FiniteSets, TLC

(* ------------------------------ bounds -------------------------------- *)

\* ticks per day: the resolution of the modelled clock
TicksPerDay == 2
\* the last day the modelled clock reaches
MaxDay == 90
\* stake and unstake are followed while total_staked stays within this
\* distance of the sum of the ACTIVE amounts
MaxDrift == 100
\* distribute_rewards calls begin while they cannot take the number of
\* recorded events beyond this
MaxEvents == 2
\* the longest lock_period given to the YieldCalculator, in days
MaxLockPeriod == 61

(* ----------------------------- constants ------------------------------ *)

\* Optional[datetime] = None
None == -1
\* round(rewards, 6)
RewardDecimals == 6
\* position.reward_rate / 365
DaysPerYear == 365

\* class StakingStatus(Enum)
StakingStatus == {"ACTIVE", "UNSTAKING", "COMPLETED", "CANCELLED"}

\* self.lock_period_multipliers, in tenths
lock_period_multipliers == (30 :> 10) @@ (90 :> 12) @@ (180 :> 15) @@ (360 :> 20)

(* ------------------------------- inputs ------------------------------- *)

Businesses == {"b1"}
Investors == {"A"}

\* the threads that call stake and unstake concurrently, and the investor
\* each of them acts for
Threads == {"t1", "t2"}
InvestorOf == ("t1" :> "A") @@ ("t2" :> "B")

\* the (amount, lock_period) pairs the threads hand to stake
ThreadRequests == { <<100, 30>>, <<1000, 45>> }

\* the threads that call distribute_rewards concurrently
Distributors == {"d1", "d2"}

\* the pool_id argument of get_distribution_history that is None
NoPool == << >>

\* the pool ids handed to distribute_rewards, which looks none of them up
DistPools == { <<"POOL", "b1", 0>>, <<"POOL", "b2", 0>> }

\* the (pool_id, start_date, end_date) triples handed to
\* get_distribution_history
HistoryQueries ==
    { <<NoPool, None, None>>,
      <<<<"POOL", "b1", 0>>, 1, None>>,
      <<<<"POOL", "b2", 0>>, None, 0>> }

\* the staking_data dictionaries handed to calculate_rewards: amounts below
\* and at the large-stake threshold, the rate 0.10, with and without the
\* 'days' and 'lock_period' keys, lock periods below and at the long-term
\* threshold, and a start_time 30 days before the last day of the clock
StakingData ==
    { [amount |-> a, reward_rate |-> 10, start_time |-> s] :
          a \in {100, 10000}, s \in {0, (MaxDay - 30) * TicksPerDay} }
    \cup
    { [amount |-> a, reward_rate |-> 10, start_time |-> s,
       days |-> 30, lock_period |-> l] :
          a \in {100, 10000}, s \in {0, (MaxDay - 30) * TicksPerDay},
          l \in {90, 180} }

\* the principals given to project_yields: none, a small and a large one
YieldPrincipals == {0, 100, 10000}

\* the reward rates given to the YieldCalculator, in ten-thousandths: none,
\* the smallest, 0.10 and 0.25
YieldRates == {0, 1, 1000, 2500}

\* the lock periods given to the YieldCalculator, in days: a single day,
\* and periods around the multiples of 30
YieldLockPeriods == {0, 1, 29, 30, 31, MaxLockPeriod - 1, MaxLockPeriod}

\* the batches handed to distribute_rewards: the reward_data dictionaries
\* are one without a 'type' key, one with a type of the enumeration and one
\* with a type that is none
Batches ==
    { << >>,
      << [amount |-> 10, recipient |-> "A"] >>,
      << [type |-> "REFERRAL", amount |-> 20, recipient |-> "B"],
         [amount |-> 10, recipient |-> "A"] >>,
      << [type |-> "BONUS", amount |-> 30, recipient |-> "A"] >> }

\* (min_stake, max_stake, base_reward_rate) triples handed to create_pool;
\* the last three are the configurations the specification wants rejected
PoolConfigs ==
    { <<100, 10000, 100>>,
      <<0, 0, 100>>,
      <<1000, 100, 100>>,
      <<20000, 20000, -50>> }

\* amounts handed to stake: around both ends of [100, 10000]
Amounts == {99, 100, 1000, 10000, 10001}

\* lock periods handed to stake: the table's keys and one that is no key
LockPeriods == {30, 45, 90, 180, 360}

\* (amount, lock_period) pairs handed to stake: every amount with the
\* 90-day lock, every lock period with the amount 1000
StakeRequests == (Amounts \X {90}) \cup ({1000} \X LockPeriods)

MaxTime == MaxDay * TicksPerDay + 1

\* the instants at which the clock is read: the first two ticks of day 0
\* and of day MaxDay
Instants == { 0, 1, MaxDay * TicksPerDay, MaxTime }

(* ------------------------------- state -------------------------------- *)

VARIABLES
    now,     \* datetime.now(), in ticks
    pools,   \* StakingManager.pools: pool_id -> StakingPool
    ret,     \* what the call made by the last step returned or raised
    threads, \* the stake and unstake calls in progress on concurrent
             \* threads: thread -> program counter and local variables
    reward_events,         \* RewardDistributor.reward_events
    distribution_history,  \* RewardDistributor.distribution_history
    algod_calls,           \* the number of calls made on self.algod_client
    distributors,          \* the distribute_rewards calls in progress:
                           \* thread -> program counter and local variables
    calc,      \* the calculate_rewards call in progress: program counter
               \* and local variables
    returned,  \* the staking_data and the result of the last
               \* calculate_rewards call that returned
    yields     \* what the last YieldCalculator call returned

\* the state of the StakingManager's callers, of the RewardDistributor and
\* of the callers of the calculation functions
stakingVars == <<pools, threads>>
distVars == <<reward_events, distribution_history, algod_calls, distributors>>
calcVars == <<calc, returned, yields>>

vars == <<now, pools, ret, threads, reward_events, distribution_history,
          algod_calls, distributors, calc, returned, yields>>

(* --------------------------- pure functions --------------------------- *)

\* timedelta.days of a non-negative timedelta of t ticks
Days(t) == t \div TicksPerDay

\* datetime.now().strftime('%Y%m%d')
DateOf(t) == t \div TicksPerDay

\* f"POOL_{business_id}_{datetime.now().strftime('%Y%m%d')}"
PoolId(business_id, t) == <<"POOL", business_id, DateOf(t)>>

\* a pool id no create_pool call produces
UnknownPool == <<"POOL", "nobody", 0>>

\* round(n / d) for d > 0, ties to the even neighbour (Python's round)
RoundHalfEven(n, d) ==
    LET q == n \div d
        r == n % d
    IN  IF 2 * r < d THEN q
        ELSE IF 2 * r > d THEN q + 1
        ELSE IF q % 2 = 0 THEN q ELSE q + 1

\* round(n / (10000 * 365), 6) in millionths, for n = amount * reward_rate * days
\* with reward_rate in ten-thousandths.  n * 10^6 / (10^4 * 365) = n * 100 / 365
\* is split as 100 * (n \div 365) + (100 * (n % 365)) / 365 to stay within
\* 32-bit integers; the first summand is an even integer, so rounding the
\* second half-to-even rounds the sum half-to-even.
RoundScaled(n) ==
    LET scale == (10 ^ RewardDecimals) \div 10000
    IN  scale * (n \div DaysPerYear)
            + RoundHalfEven(scale * (n % DaysPerYear), DaysPerYear)

\* a sum of whole units and millionths, as whole units and a fraction in
\* millionths in [0, 10^6)
Money(units, millionths) ==
    [ units      |-> units + (millionths \div (10 ^ RewardDecimals)),
      millionths |-> millionths % (10 ^ RewardDecimals) ]

\* StakingPool.__init__
StakingPool(business_id, min_stake, max_stake, base_reward_rate, t) ==
    [ business_id      |-> business_id,
      min_stake        |-> min_stake,
      max_stake        |-> max_stake,
      base_reward_rate |-> base_reward_rate,
      total_staked     |-> 0,
      positions        |-> << >>,
      created_at       |-> t ]

\* StakingPosition(...) as stake builds it
StakingPosition(investor_address, amount, t, lock_period, reward_rate) ==
    [ investor_address    |-> investor_address,
      amount              |-> amount,
      start_time          |-> t,
      lock_period         |-> lock_period,
      status              |-> "ACTIVE",
      reward_rate         |-> reward_rate,
      accumulated_rewards |-> 0,
      last_claim_time     |-> None ]

\* mutant of RewardRate: the lock period's multiplier is left out
RewardRate_base_only(base_reward_rate, lock_period) ==
    base_reward_rate * lock_period_multipliers[30]

\* pool.base_reward_rate * self.lock_period_multipliers[lock_period]
RewardRate(base_reward_rate, lock_period) ==
    base_reward_rate * lock_period_multipliers[lock_period]

\* position.last_claim_time or position.start_time
AccrualStart(position) ==
    IF position.last_claim_time = None
    THEN position.start_time
    ELSE position.last_claim_time

\* mutant of _calculate_rewards: the reward is cut to six decimals
\* instead of rounded
_calculate_rewards_truncated(position, t) ==
    IF position.status # "ACTIVE"
    THEN 0
    ELSE LET n == position.amount * position.reward_rate
                    * Days(t - AccrualStart(position))
             scale == (10 ^ RewardDecimals) \div 10000
         IN  scale * (n \div DaysPerYear)
                 + ((scale * (n % DaysPerYear)) \div DaysPerYear)

\* StakingManager._calculate_rewards, in millionths:
\* round(amount * (reward_rate / 365) * days_staked, 6)
_calculate_rewards(position, t) ==
    IF position.status # "ACTIVE"
    THEN 0
    ELSE LET days_staked == Days(t - AccrualStart(position))
         IN  RoundScaled(position.amount * position.reward_rate * days_staked)

\* mutant of LockEndTime: the lock ends one tick late, as it does for
\* unstake when the gate is written now <= lock_end_time
LockEndTime_late(position) ==
    position.start_time + position.lock_period * TicksPerDay + 1

\* position.start_time + timedelta(days=position.lock_period)
LockEndTime(position) == position.start_time + position.lock_period * TicksPerDay

\* mutant of AmountOutOfRange: both ends are excluded
AmountOutOfRange_exclusive(pool, amount) ==
    amount <= pool.min_stake \/ amount >= pool.max_stake

\* amount < pool.min_stake or amount > pool.max_stake
AmountOutOfRange(pool, amount) ==
    amount < pool.min_stake \/ amount > pool.max_stake

\* pool.positions[investor_address] = position; pool.total_staked += amount
StakedPool(pool, position) ==
    [ pool EXCEPT
        !.positions = (position.investor_address :> position) @@ @,
        !.total_staked = @ + position.amount ]

\* mutant of UnstakedPool: the position is marked COMPLETED at once
UnstakedPool_completes(pool, investor_address) ==
    [ pool EXCEPT
        !.positions[investor_address].status = "COMPLETED",
        !.total_staked = @ - pool.positions[investor_address].amount ]

\* mutant of UnstakedPool: total_staked is left as it was
UnstakedPool_no_decrement(pool, investor_address) ==
    [ pool EXCEPT !.positions[investor_address].status = "UNSTAKING" ]

\* position.status = UNSTAKING; pool.total_staked -= position.amount
UnstakedPool(pool, investor_address) ==
    [ pool EXCEPT
        !.positions[investor_address].status = "UNSTAKING",
        !.total_staked = @ - pool.positions[investor_address].amount ]

(* ------------------------------ results ------------------------------- *)

\* self.bonus_multipliers, in hundredths
bonus_multipliers ==
    [ early_adopter |-> 120, large_stake |-> 115, long_term |-> 125 ]

\* staking_data.get('days', 0)
DaysOf(staking_data) ==
    IF "days" \in DOMAIN staking_data THEN staking_data.days ELSE 0

\* staking_data.get('lock_period', 0)
LockPeriodOf(staking_data) ==
    IF "lock_period" \in DOMAIN staking_data THEN staking_data.lock_period ELSE 0

\* RewardDistributor._calculate_base_reward: amount * (rate / 365) * days
\* with the rate in hundredths, in units of 1/3650000
_calculate_base_reward(staking_data) ==
    staking_data.amount * staking_data.reward_rate * DaysOf(staking_data) * 100

\* RewardDistributor._is_early_adopter at the instant t; start_time is the
\* instant datetime.fromisoformat(staking_data['start_time']) denotes
_is_early_adopter(staking_data, t) ==
    t - staking_data.start_time <= 30 * TicksPerDay

\* RewardDistributor._is_large_stake
_is_large_stake(staking_data) == staking_data.amount >= 10000

\* RewardDistributor._is_long_term_staker
_is_long_term_staker(staking_data) == LockPeriodOf(staking_data) >= 180

\* base_reward * (multiplier - 1) for a multiplier in hundredths
BonusPart(base_reward, multiplier) == (base_reward \div 100) * (multiplier - 100)

\* mutant of _calculate_bonuses: the multipliers that apply are multiplied
\* with each other
_calculate_bonuses_compounded(staking_data, t) ==
    LET base_reward == _calculate_base_reward(staking_data)
        m1 == IF _is_early_adopter(staking_data, t)
              THEN bonus_multipliers.early_adopter ELSE 100
        m2 == IF _is_large_stake(staking_data)
              THEN bonus_multipliers.large_stake ELSE 100
        m3 == IF _is_long_term_staker(staking_data)
              THEN bonus_multipliers.long_term ELSE 100
    IN  (base_reward \div 1000) * ((m1 * m2 * m3) \div 1000 - 1000)

\* RewardDistributor._calculate_bonuses at the instant t
_calculate_bonuses(staking_data, t) ==
    LET base_reward == _calculate_base_reward(staking_data)
    IN  (IF _is_early_adopter(staking_data, t)
         THEN BonusPart(base_reward, bonus_multipliers.early_adopter) ELSE 0)
      + (IF _is_large_stake(staking_data)
         THEN BonusPart(base_reward, bonus_multipliers.large_stake) ELSE 0)
      + (IF _is_long_term_staker(staking_data)
         THEN BonusPart(base_reward, bonus_multipliers.long_term) ELSE 0)

\* the dictionary multipliers with the key and its multiplier added
WithMultiplier(multipliers, key) ==
    (key :> bonus_multipliers[key]) @@ multipliers

\* mutant of _get_applied_multipliers: the checks are chained with elif,
\* so that the first that holds ends them
_get_applied_multipliers_first_only(staking_data, t) ==
    IF _is_early_adopter(staking_data, t)
    THEN WithMultiplier(<< >>, "early_adopter")
    ELSE IF _is_large_stake(staking_data)
    THEN WithMultiplier(<< >>, "large_stake")
    ELSE IF _is_long_term_staker(staking_data)
    THEN WithMultiplier(<< >>, "long_term")
    ELSE << >>

\* RewardDistributor._get_applied_multipliers at the instant t
_get_applied_multipliers(staking_data, t) ==
    LET m1 == IF _is_early_adopter(staking_data, t)
              THEN WithMultiplier(<< >>, "early_adopter") ELSE << >>
        m2 == IF _is_large_stake(staking_data)
              THEN WithMultiplier(m1, "large_stake") ELSE m1
    IN  IF _is_long_term_staker(staking_data)
        THEN WithMultiplier(m2, "long_term") ELSE m2

\* the staking_data of a position nobody holds
NoStakingData == [amount |-> 0, reward_rate |-> 0, start_time |-> 0]

\* the reward_breakdown dictionary of calculate_rewards, before it is
\* filled in, with the staking_data it is for
NoBreakdown ==
    [ staking_data        |-> NoStakingData,
      base_reward         |-> 0,
      bonus_reward        |-> 0,
      total_reward        |-> 0,
      calculation_time    |-> None,
      applied_multipliers |-> << >> ]

\* no calculate_rewards call is in progress
IdleCalc ==
    [ pc |-> "idle", breakdown |-> NoBreakdown ]

\* no YieldCalculator call was made
NoYield == [ op |-> "none", pc |-> "idle" ]

\* the dictionary get_pool_stats returns, before it is filled in
NoStats ==
    [ total_staked     |-> 0,
      active_positions |-> 0,
      avg_stake        |-> Money(0, 0),
      created_at       |-> 0,
      min_stake        |-> 0,
      max_stake        |-> 0,
      base_reward_rate |-> 0 ]

\* no call was made by the last step
NoCall ==
    [ op |-> "none", err |-> "ok",
      principal |-> 0, rewards |-> 0, total |-> Money(0, 0),
      stats |-> NoStats, events |-> << >>, breakdown |-> NoBreakdown ]

\* the call returned normally
Returned(op) == [ NoCall EXCEPT !.op = op ]

\* the call raised ValueError; err names the raise statement by the kind
\* the specification gives it
Raised(op, err) == [ NoCall EXCEPT !.op = op, !.err = err ]

\* the sum of amount over the positions of a pool whose status is ACTIVE
ActiveSum(pool) ==
    LET RECURSIVE Sum(_)
        Sum(S) == IF S = {} THEN 0
                  ELSE LET i == CHOOSE x \in S : TRUE
                       IN  (IF pool.positions[i].status = "ACTIVE"
                            THEN pool.positions[i].amount ELSE 0) + Sum(S \ {i})
    IN  Sum(DOMAIN pool.positions)

\* how far a pool's total_staked is from the sum of its ACTIVE amounts
Drift(pool) ==
    LET d == pool.total_staked - ActiveSum(pool)
    IN  IF d < 0 THEN -d ELSE d

(* ------------------------------ actions ------------------------------- *)

\* class RewardType(Enum)
RewardType == {"STAKING", "PERFORMANCE", "REFERRAL", "SPECIAL"}

\* mutant of EventId: the number of recorded events is left out
EventId_time_only(t, events) == <<"REW", t, 0>>

\* f"REW_{datetime.now().strftime('%Y%m%d_%H%M%S')}_{len(self.reward_events)}";
\* a tick is a whole number of seconds
EventId(t, events) == <<"REW", t, Len(events)>>

\* reward_data.get('type', 'STAKING')
TypeOf(reward_data) ==
    IF "type" \in DOMAIN reward_data THEN reward_data.type ELSE "STAKING"

\* RewardEvent(...) as distribute_rewards builds it; status keeps the
\* default of the dataclass, metadata is reward_data.get('metadata', {})
RewardEvent(event_id, reward_data, t, pool_id) ==
    [ event_id    |-> event_id,
      reward_type |-> TypeOf(reward_data),
      amount      |-> reward_data.amount,
      timestamp   |-> t,
      recipient   |-> reward_data.recipient,
      pool_id     |-> pool_id,
      status      |-> "PENDING",
      metadata    |-> << >> ]

\* RewardDistributor._process_reward_distribution: the try block holds
\* nothing but return True
_process_reward_distribution(event) == TRUE

\* mutant of SortedByTimestampDesc: the events are sorted in ascending
\* order
SortedByTimestampDesc_ascending(events) ==
    LET Insert(out, e) ==
            LET later == { k \in 1..Len(out) : out[k].timestamp > e.timestamp }
                k == IF later = {} THEN Len(out) + 1
                     ELSE CHOOSE x \in later : \A y \in later : x <= y
            IN  SubSeq(out, 1, k - 1) \o <<e>> \o SubSeq(out, k, Len(out))
        RECURSIVE Sort(_, _)
        Sort(out, rest) ==
            IF rest = << >> THEN out
            ELSE Sort(Insert(out, Head(rest)), Tail(rest))
    IN  Sort(<< >>, events)

\* sorted(events, key=lambda x: x.timestamp, reverse=True): descending,
\* events of equal timestamp in the order they had
SortedByTimestampDesc(events) ==
    LET Insert(out, e) ==
            LET later == { k \in 1..Len(out) : out[k].timestamp < e.timestamp }
                k == IF later = {} THEN Len(out) + 1
                     ELSE CHOOSE x \in later : \A y \in later : x <= y
            IN  SubSeq(out, 1, k - 1) \o <<e>> \o SubSeq(out, k, Len(out))
        RECURSIVE Sort(_, _)
        Sort(out, rest) ==
            IF rest = << >> THEN out
            ELSE Sort(Insert(out, Head(rest)), Tail(rest))
    IN  Sort(<< >>, events)

\* a thread that is in no distribute_rewards call
IdleDistributor ==
    [ pc                 |-> "idle",
      pool_id            |-> NoPool,
      rewards_data       |-> << >>,
      event              |-> RewardEvent(<<"REW", 0, 0>>,
                                         [amount |-> 0, recipient |-> ""],
                                         0, NoPool),
      distributed_events |-> << >> ]

\* a thread that is in no call
Idle ==
    [ pc       |-> "idle",
      pool_id  |-> UnknownPool,
      position |-> StakingPosition("", 0, 0, 0, 0),
      loaded   |-> 0,
      err      |-> "ok" ]

Init ==
    /\ now = 0
    /\ pools = << >>
    /\ ret = NoCall
    /\ threads = [t \in Threads |-> Idle]
    /\ reward_events = << >>
    /\ distribution_history = << >>
    /\ algod_calls = 0
    /\ distributors = [d \in Distributors |-> IdleDistributor]
    /\ calc = IdleCalc
    /\ returned = NoBreakdown
    /\ yields = NoYield

\* the clock moves on; no call is made
Tick ==
    /\ \E t \in Instants : t > now /\ now' = t
    /\ ret' = NoCall
    /\ UNCHANGED pools

\* StakingManager.create_pool
create_pool(business_id, min_stake, max_stake, base_reward_rate) ==
    LET pool_id == PoolId(business_id, now)
        pool == StakingPool(business_id, min_stake, max_stake, base_reward_rate, now)
    IN  /\ pools' = (pool_id :> pool) @@ pools
        /\ ret' = Returned("create_pool")
        /\ UNCHANGED now

\* mutant of stake: total_staked is raised before the lock period is
\* validated
stake_counts_first(pool_id, investor_address, amount, lock_period) ==
    /\ UNCHANGED now
    /\ IF pool_id \notin DOMAIN pools
       THEN /\ ret' = Raised("stake", "NotFound")
            /\ UNCHANGED pools
       ELSE LET pool == pools[pool_id] IN
            IF AmountOutOfRange(pool, amount)
            THEN /\ ret' = Raised("stake", "OutOfRange")
                 /\ UNCHANGED pools
            ELSE IF lock_period \notin DOMAIN lock_period_multipliers
            THEN /\ ret' = Raised("stake", "InvalidLockPeriod")
                 /\ pools' = [pools EXCEPT ![pool_id].total_staked = @ + amount]
            ELSE LET reward_rate == RewardRate(pool.base_reward_rate, lock_period)
                     position == StakingPosition(investor_address, amount, now,
                                                 lock_period, reward_rate)
                 IN  /\ pools' = [pools EXCEPT ![pool_id] = StakedPool(pool, position)]
                     /\ Drift(pools'[pool_id]) <= MaxDrift
                     /\ ret' = Returned("stake")

\* StakingManager.stake
stake(pool_id, investor_address, amount, lock_period) ==
    /\ UNCHANGED now
    /\ IF pool_id \notin DOMAIN pools
       THEN /\ ret' = Raised("stake", "NotFound")
            /\ UNCHANGED pools
       ELSE LET pool == pools[pool_id] IN
            IF AmountOutOfRange(pool, amount)
            THEN /\ ret' = Raised("stake", "OutOfRange")
                 /\ UNCHANGED pools
            ELSE IF lock_period \notin DOMAIN lock_period_multipliers
            THEN /\ ret' = Raised("stake", "InvalidLockPeriod")
                 /\ UNCHANGED pools
            ELSE LET reward_rate == RewardRate(pool.base_reward_rate, lock_period)
                     position == StakingPosition(investor_address, amount, now,
                                                 lock_period, reward_rate)
                 IN  /\ pools' = [pools EXCEPT ![pool_id] = StakedPool(pool, position)]
                     /\ Drift(pools'[pool_id]) <= MaxDrift
                     /\ ret' = Returned("stake")

\* StakingManager.unstake
unstake(pool_id, investor_address) ==
    /\ UNCHANGED now
    /\ IF pool_id \notin DOMAIN pools
       THEN /\ ret' = Raised("unstake", "NotFound")
            /\ UNCHANGED pools
       ELSE LET pool == pools[pool_id] IN
            IF investor_address \notin DOMAIN pool.positions
            THEN /\ ret' = Raised("unstake", "NotFound")
                 /\ UNCHANGED pools
            ELSE LET position == pool.positions[investor_address] IN
                 IF now < LockEndTime(position)
                 THEN /\ ret' = Raised("unstake", "LockedError")
                      /\ UNCHANGED pools
                 ELSE LET final_rewards == _calculate_rewards(position, now) IN
                      /\ pools' = [pools EXCEPT ![pool_id] =
                                       UnstakedPool(pool, investor_address)]
                      /\ Drift(pools'[pool_id]) <= MaxDrift
                      /\ ret' = [ Returned("unstake") EXCEPT
                                    !.principal = position.amount,
                                    !.rewards = final_rewards,
                                    !.total = Money(position.amount, final_rewards) ]

\* len([p for p in pool.positions.values() if p.status == ACTIVE])
ActivePositions(pool) ==
    Cardinality({ i \in DOMAIN pool.positions :
                      pool.positions[i].status = "ACTIVE" })

\* pool.total_staked / active_positions if active_positions > 0 else 0, as
\* whole units and millionths; the quotient is exact for the one or two
\* positions a pool of the model holds
AvgStake(total_staked, active_positions) ==
    IF active_positions > 0
    THEN Money(total_staked \div active_positions,
               ((total_staked % active_positions) * (10 ^ RewardDecimals))
                   \div active_positions)
    ELSE Money(0, 0)

\* StakingManager.get_pool_stats
get_pool_stats(pool_id) ==
    /\ UNCHANGED <<now, pools>>
    /\ IF pool_id \notin DOMAIN pools
       THEN ret' = Raised("get_pool_stats", "NotFound")
       ELSE LET pool == pools[pool_id]
                active_positions == ActivePositions(pool)
            IN  ret' = [ Returned("get_pool_stats") EXCEPT !.stats =
                           [ total_staked     |-> pool.total_staked,
                             active_positions |-> active_positions,
                             avg_stake        |-> AvgStake(pool.total_staked,
                                                           active_positions),
                             created_at       |-> pool.created_at,
                             min_stake        |-> pool.min_stake,
                             max_stake        |-> pool.max_stake,
                             base_reward_rate |-> pool.base_reward_rate ] ]

\* the pool ids handed to stake and unstake: every registered one and one
\* that is not registered
PoolIdInputs == DOMAIN pools \cup {UnknownPool}

\* the calls are made one after another, each running to its end
Next ==
    \/ Tick /\ UNCHANGED <<threads, distVars, calcVars>>
    \/ \E b \in Businesses, c \in PoolConfigs :
           create_pool(b, c[1], c[2], c[3]) /\ UNCHANGED <<threads, distVars, calcVars>>
    \/ \E p \in PoolIdInputs, i \in Investors, r \in StakeRequests :
           stake(p, i, r[1], r[2]) /\ UNCHANGED <<threads, distVars, calcVars>>
    \/ \E p \in PoolIdInputs, i \in Investors :
           unstake(p, i) /\ UNCHANGED <<threads, distVars, calcVars>>
    \/ \E p \in PoolIdInputs :
           get_pool_stats(p) /\ UNCHANGED <<threads, distVars, calcVars>>

Spec == Init /\ [][Next]_vars

(* ------------------------- concurrent callers ------------------------- *)
(* StakingManager holds no lock.  When stake and unstake are called from   *)
(* several threads, the interpreter may switch threads between any two     *)
(* bytecodes, so each statement that writes shared state is a step of its  *)
(* own and pool.total_staked += amount, a read followed by a write, is     *)
(* two.  The checks at the head of a call read only what no concurrent     *)
(* step of another investor's call writes, and are one step.               *)

\* stake, lines 84-105: the checks and the construction of the position
stake_begin(t, pool_id, amount, lock_period) ==
    /\ threads[t].pc = "idle"
    /\ ret' = NoCall
    /\ UNCHANGED <<now, pools>>
    /\ IF pool_id \notin DOMAIN pools
       THEN threads' = [threads EXCEPT ![t] = [Idle EXCEPT !.err = "NotFound"]]
       ELSE LET pool == pools[pool_id] IN
            IF AmountOutOfRange(pool, amount)
            THEN threads' = [threads EXCEPT ![t] = [Idle EXCEPT !.err = "OutOfRange"]]
            ELSE IF lock_period \notin DOMAIN lock_period_multipliers
            THEN threads' = [threads EXCEPT ![t] =
                                [Idle EXCEPT !.err = "InvalidLockPeriod"]]
            ELSE LET reward_rate == RewardRate(pool.base_reward_rate, lock_period)
                     position == StakingPosition(InvestorOf[t], amount, now,
                                                 lock_period, reward_rate)
                 IN  threads' = [threads EXCEPT ![t] =
                                    [ Idle EXCEPT !.pc = "stake_107",
                                                  !.pool_id = pool_id,
                                                  !.position = position ]]

\* stake, line 107: pool.positions[investor_address] = position
stake_107(t) ==
    LET self == threads[t] IN
    /\ self.pc = "stake_107"
    /\ pools' = [pools EXCEPT ![self.pool_id].positions =
                     (InvestorOf[t] :> self.position) @@ @]
    /\ threads' = [threads EXCEPT ![t].pc = "stake_108_load"]
    /\ ret' = NoCall
    /\ UNCHANGED now

\* stake, line 108: the read of pool.total_staked += amount
stake_108_load(t) ==
    LET self == threads[t] IN
    /\ self.pc = "stake_108_load"
    /\ threads' = [threads EXCEPT ![t].pc = "stake_108_store",
                                  ![t].loaded = pools[self.pool_id].total_staked]
    /\ ret' = NoCall
    /\ UNCHANGED <<now, pools>>

\* stake, line 108: the write of pool.total_staked += amount, and the return
stake_108_store(t) ==
    LET self == threads[t] IN
    /\ self.pc = "stake_108_store"
    /\ pools' = [pools EXCEPT ![self.pool_id].total_staked =
                     self.loaded + self.position.amount]
    /\ Drift(pools'[self.pool_id]) <= MaxDrift
    /\ threads' = [threads EXCEPT ![t] = Idle]
    /\ ret' = NoCall
    /\ UNCHANGED now

\* unstake, lines 116-131: the checks and the final rewards
unstake_begin(t, pool_id) ==
    /\ threads[t].pc = "idle"
    /\ ret' = NoCall
    /\ UNCHANGED <<now, pools>>
    /\ IF pool_id \notin DOMAIN pools
       THEN threads' = [threads EXCEPT ![t] = [Idle EXCEPT !.err = "NotFound"]]
       ELSE LET pool == pools[pool_id] IN
            IF InvestorOf[t] \notin DOMAIN pool.positions
            THEN threads' = [threads EXCEPT ![t] = [Idle EXCEPT !.err = "NotFound"]]
            ELSE LET position == pool.positions[InvestorOf[t]] IN
                 IF now < LockEndTime(position)
                 THEN threads' = [threads EXCEPT ![t] =
                                     [Idle EXCEPT !.err = "LockedError"]]
                 ELSE threads' = [threads EXCEPT ![t] =
                                     [ Idle EXCEPT !.pc = "unstake_133",
                                                   !.pool_id = pool_id,
                                                   !.position = position ]]

\* unstake, line 133: position.status = StakingStatus.UNSTAKING
unstake_133(t) ==
    LET self == threads[t] IN
    /\ self.pc = "unstake_133"
    /\ pools' = [pools EXCEPT
                     ![self.pool_id].positions[InvestorOf[t]].status = "UNSTAKING"]
    /\ threads' = [threads EXCEPT ![t].pc = "unstake_134_load"]
    /\ ret' = NoCall
    /\ UNCHANGED now

\* unstake, line 134: the read of pool.total_staked -= position.amount
unstake_134_load(t) ==
    LET self == threads[t] IN
    /\ self.pc = "unstake_134_load"
    /\ threads' = [threads EXCEPT ![t].pc = "unstake_134_store",
                                  ![t].loaded = pools[self.pool_id].total_staked]
    /\ ret' = NoCall
    /\ UNCHANGED <<now, pools>>

\* unstake, line 134: the write of pool.total_staked -= position.amount,
\* and the return
unstake_134_store(t) ==
    LET self == threads[t] IN
    /\ self.pc = "unstake_134_store"
    /\ pools' = [pools EXCEPT ![self.pool_id].total_staked =
                     self.loaded - self.position.amount]
    /\ Drift(pools'[self.pool_id]) <= MaxDrift
    /\ threads' = [threads EXCEPT ![t] = Idle]
    /\ ret' = NoCall
    /\ UNCHANGED now

\* every thread is between two calls
Quiescent == \A t \in Threads : threads[t].pc = "idle"

\* the threads call stake and unstake on the one pool of one business,
\* which is created before the first call; get_pool_stats is called at any
\* time
ConcNext ==
    \/ Tick /\ UNCHANGED <<threads, distVars, calcVars>>
    \/ /\ Quiescent
       /\ pools = << >>
       /\ \E b \in Businesses : create_pool(b, 100, 10000, 100)
       /\ UNCHANGED <<threads, distVars, calcVars>>
    \/ \E p \in PoolIdInputs :
           get_pool_stats(p) /\ UNCHANGED <<threads, distVars, calcVars>>
    \/ \E t \in Threads, p \in PoolIdInputs, r \in ThreadRequests :
           stake_begin(t, p, r[1], r[2]) /\ UNCHANGED <<distVars, calcVars>>
    \/ \E t \in Threads : stake_107(t) /\ UNCHANGED <<distVars, calcVars>>
    \/ \E t \in Threads : stake_108_load(t) /\ UNCHANGED <<distVars, calcVars>>
    \/ \E t \in Threads : stake_108_store(t) /\ UNCHANGED <<distVars, calcVars>>
    \/ \E t \in Threads, p \in PoolIdInputs :
           unstake_begin(t, p) /\ UNCHANGED <<distVars, calcVars>>
    \/ \E t \in Threads : unstake_133(t) /\ UNCHANGED <<distVars, calcVars>>
    \/ \E t \in Threads : unstake_134_load(t) /\ UNCHANGED <<distVars, calcVars>>
    \/ \E t \in Threads : unstake_134_store(t) /\ UNCHANGED <<distVars, calcVars>>

SpecConc == Init /\ [][ConcNext]_vars

(* -------------------------- RewardDistributor ------------------------- *)
(* contracts/modules/staking/reward_distribution.py.  The distributor      *)
(* holds no lock either; a distribute_rewards call is followed statement   *)
(* by statement, so that calls made from several threads interleave.       *)

\* the number of events the calls in progress have yet to record
Outstanding ==
    LET Left(d) == Len(distributors[d].rewards_data)
                     + (IF distributors[d].pc \in {"line_79", "line_84"}
                        THEN 1 ELSE 0)
        RECURSIVE Sum(_)
        Sum(S) == IF S = {} THEN 0
                  ELSE LET d == CHOOSE x \in S : TRUE
                       IN  Left(d) + Sum(S \ {d})
    IN  Sum(Distributors)

\* distribute_rewards, line 65: distributed_events = []
distribute_begin(d, pool_id, rewards_data) ==
    /\ distributors[d].pc = "idle"
    /\ Len(reward_events) + Outstanding + Len(rewards_data) <= MaxEvents
    /\ distributors' = [distributors EXCEPT ![d] =
                           [ IdleDistributor EXCEPT !.pc = "line_67",
                                                    !.pool_id = pool_id,
                                                    !.rewards_data = rewards_data ]]
    /\ ret' = NoCall
    /\ UNCHANGED <<now, reward_events, distribution_history, algod_calls>>

\* distribute_rewards, lines 67-76 and 92: the next reward_data of the
\* loop and the construction of its event, or the return after the last;
\* RewardType(...) raises ValueError for a value that is no member
distribute_67(d) ==
    LET self == distributors[d] IN
    /\ self.pc = "line_67"
    /\ UNCHANGED <<now, reward_events, distribution_history, algod_calls>>
    /\ IF self.rewards_data = << >>
       THEN /\ ret' = [ Returned("distribute_rewards") EXCEPT
                          !.events = self.distributed_events ]
            /\ distributors' = [distributors EXCEPT ![d] = IdleDistributor]
       ELSE LET reward_data == Head(self.rewards_data) IN
            IF TypeOf(reward_data) \notin RewardType
            THEN /\ ret' = Raised("distribute_rewards", "ValueError")
                 /\ distributors' = [distributors EXCEPT ![d] = IdleDistributor]
            ELSE /\ ret' = NoCall
                 /\ distributors' = [distributors EXCEPT
                        ![d].pc = "line_79",
                        ![d].rewards_data = Tail(self.rewards_data),
                        ![d].event = RewardEvent(EventId(now, reward_events),
                                                 reward_data, now, self.pool_id) ]

\* mutant of distribute_79: the status is set only when the distribution
\* fails, a successful event keeps the status it was built with
distribute_79_failures_only(d) ==
    LET self == distributors[d] IN
    /\ self.pc = "line_79"
    /\ distributors' = [distributors EXCEPT
           ![d].pc = "line_84",
           ![d].event.status = IF _process_reward_distribution(self.event)
                               THEN @ ELSE "FAILED" ]
    /\ ret' = NoCall
    /\ UNCHANGED <<now, reward_events, distribution_history, algod_calls>>

\* distribute_rewards, lines 79-82: the distribution is attempted and the
\* status of the event set
distribute_79(d) ==
    LET self == distributors[d] IN
    /\ self.pc = "line_79"
    /\ distributors' = [distributors EXCEPT
           ![d].pc = "line_84",
           ![d].event.status = IF _process_reward_distribution(self.event)
                               THEN "COMPLETED" ELSE "FAILED" ]
    /\ ret' = NoCall
    /\ UNCHANGED <<now, reward_events, distribution_history, algod_calls>>

\* distribute_rewards, lines 84-85: the event is appended to reward_events
\* and to distributed_events
distribute_84(d) ==
    LET self == distributors[d] IN
    /\ self.pc = "line_84"
    /\ reward_events' = Append(reward_events, self.event)
    /\ distributors' = [distributors EXCEPT
           ![d].pc = "line_88",
           ![d].distributed_events = Append(@, self.event) ]
    /\ ret' = NoCall
    /\ UNCHANGED <<now, distribution_history, algod_calls>>

\* distribute_rewards, line 88: if pool_id not in self.distribution_history
distribute_88(d) ==
    LET self == distributors[d] IN
    /\ self.pc = "line_88"
    /\ distributors' = [distributors EXCEPT
           ![d].pc = IF self.pool_id \notin DOMAIN distribution_history
                     THEN "line_89" ELSE "line_90" ]
    /\ ret' = NoCall
    /\ UNCHANGED <<now, reward_events, distribution_history, algod_calls>>

\* distribute_rewards, line 89: self.distribution_history[pool_id] = []
distribute_89(d) ==
    LET self == distributors[d] IN
    /\ self.pc = "line_89"
    /\ distribution_history' =
           (self.pool_id :> << >>) @@ distribution_history
    /\ distributors' = [distributors EXCEPT ![d].pc = "line_90"]
    /\ ret' = NoCall
    /\ UNCHANGED <<now, reward_events, algod_calls>>

\* mutant of distribute_90: the event is appended to the history of every
\* pool that has one
distribute_90_every_pool(d) ==
    LET self == distributors[d] IN
    /\ self.pc = "line_90"
    /\ distribution_history' =
           [p \in DOMAIN distribution_history |->
                Append(distribution_history[p], self.event)]
    /\ distributors' = [distributors EXCEPT ![d].pc = "line_67"]
    /\ ret' = NoCall
    /\ UNCHANGED <<now, reward_events, algod_calls>>

\* distribute_rewards, line 90:
\* self.distribution_history[pool_id].append(event)
distribute_90(d) ==
    LET self == distributors[d] IN
    /\ self.pc = "line_90"
    /\ distribution_history' =
           [distribution_history EXCEPT ![self.pool_id] = Append(@, self.event)]
    /\ distributors' = [distributors EXCEPT ![d].pc = "line_67"]
    /\ ret' = NoCall
    /\ UNCHANGED <<now, reward_events, algod_calls>>

\* mutant of get_distribution_history: self.reward_events is sorted in
\* place
get_distribution_history_in_place(pool_id, start_date, end_date) ==
    /\ UNCHANGED <<now, distribution_history, algod_calls, distributors>>
    /\ reward_events' = SortedByTimestampDesc(reward_events)
    /\ IF pool_id # NoPool /\ pool_id \notin DOMAIN distribution_history
       THEN ret' = Returned("get_distribution_history")
       ELSE LET events == IF pool_id \in DOMAIN distribution_history
                          THEN distribution_history[pool_id]
                          ELSE reward_events
                from == IF start_date # None
                        THEN SelectSeq(events, LAMBDA e : e.timestamp >= start_date)
                        ELSE events
                upto == IF end_date # None
                        THEN SelectSeq(from, LAMBDA e : e.timestamp <= end_date)
                        ELSE from
            IN  ret' = [ Returned("get_distribution_history") EXCEPT
                           !.events = SortedByTimestampDesc(upto) ]

\* RewardDistributor.get_distribution_history; start_date and end_date are
\* instants or None
get_distribution_history(pool_id, start_date, end_date) ==
    /\ UNCHANGED <<now, distVars>>
    /\ IF pool_id # NoPool /\ pool_id \notin DOMAIN distribution_history
       THEN ret' = Returned("get_distribution_history")
       ELSE LET events == IF pool_id \in DOMAIN distribution_history
                          THEN distribution_history[pool_id]
                          ELSE reward_events
                from == IF start_date # None
                        THEN SelectSeq(events, LAMBDA e : e.timestamp >= start_date)
                        ELSE events
                upto == IF end_date # None
                        THEN SelectSeq(from, LAMBDA e : e.timestamp <= end_date)
                        ELSE from
            IN  ret' = [ Returned("get_distribution_history") EXCEPT
                           !.events = SortedByTimestampDesc(upto) ]

\* the clock moves on within the first day, distribute_rewards is called
\* on the threads and get_distribution_history at any time
DistNext ==
    \/ Tick /\ DateOf(now') = 0 /\ UNCHANGED <<threads, distVars, calcVars>>
    \/ \E d \in Distributors, p \in DistPools, b \in Batches :
           distribute_begin(d, p, b) /\ UNCHANGED <<stakingVars, calcVars>>
    \/ \E d \in Distributors : distribute_67(d) /\ UNCHANGED <<stakingVars, calcVars>>
    \/ \E d \in Distributors : distribute_79(d) /\ UNCHANGED <<stakingVars, calcVars>>
    \/ \E d \in Distributors : distribute_84(d) /\ UNCHANGED <<stakingVars, calcVars>>
    \/ \E d \in Distributors : distribute_88(d) /\ UNCHANGED <<stakingVars, calcVars>>
    \/ \E d \in Distributors : distribute_89(d) /\ UNCHANGED <<stakingVars, calcVars>>
    \/ \E d \in Distributors : distribute_90(d) /\ UNCHANGED <<stakingVars, calcVars>>
    \/ \E q \in HistoryQueries :
           get_distribution_history(q[1], q[2], q[3]) /\ UNCHANGED <<stakingVars, calcVars>>

SpecDist == Init /\ [][DistNext]_vars

\* no distribute_rewards call is in progress
DistQuiescent == \A d \in Distributors : distributors[d].pc = "idle"

\* the RewardDistributor called by one caller at a time: a
\* distribute_rewards call begins, and get_distribution_history is called,
\* only while no call is in progress
DistSeqNext ==
    \/ Tick /\ UNCHANGED <<threads, distVars, calcVars>>
    \/ /\ DistQuiescent
       /\ \E d \in Distributors, p \in DistPools, b \in Batches :
              distribute_begin(d, p, b)
       /\ UNCHANGED <<stakingVars, calcVars>>
    \/ \E d \in Distributors : distribute_67(d) /\ UNCHANGED <<stakingVars, calcVars>>
    \/ \E d \in Distributors : distribute_79(d) /\ UNCHANGED <<stakingVars, calcVars>>
    \/ \E d \in Distributors : distribute_84(d) /\ UNCHANGED <<stakingVars, calcVars>>
    \/ \E d \in Distributors : distribute_88(d) /\ UNCHANGED <<stakingVars, calcVars>>
    \/ \E d \in Distributors : distribute_89(d) /\ UNCHANGED <<stakingVars, calcVars>>
    \/ \E d \in Distributors : distribute_90(d) /\ UNCHANGED <<stakingVars, calcVars>>
    \/ /\ DistQuiescent
       /\ \E q \in HistoryQueries : get_distribution_history(q[1], q[2], q[3])
       /\ UNCHANGED <<stakingVars, calcVars>>

SpecDistSeq == Init /\ [][DistSeqNext]_vars

(* -------------------------- calculate_rewards ------------------------- *)
(* A calculate_rewards call reads the clock three times: in                *)
(* _is_early_adopter for the bonus, for calculation_time, and in           *)
(* _is_early_adopter for the multiplier list.  Time passes between the     *)
(* reads, so the call is followed read by read.                            *)

\* calculate_rewards, lines 44-47: base_reward, bonus_reward, total_reward;
\* additional_metrics is handed on and never read
calculate_44(staking_data, additional_metrics) ==
    /\ calc.pc = "idle"
    /\ LET base_reward == _calculate_base_reward(staking_data)
           bonus_reward == _calculate_bonuses(staking_data, now)
       IN  calc' = [ pc |-> "line_53",
                     breakdown |->
                         [ NoBreakdown EXCEPT
                             !.staking_data = staking_data,
                             !.base_reward = base_reward,
                             !.bonus_reward = bonus_reward,
                             !.total_reward = base_reward + bonus_reward ] ]
    /\ ret' = NoCall
    /\ UNCHANGED <<now, returned, yields>>

\* calculate_rewards, line 53: 'calculation_time': datetime.now().isoformat()
calculate_53 ==
    /\ calc.pc = "line_53"
    /\ calc' = [ calc EXCEPT !.pc = "line_54",
                             !.breakdown.calculation_time = now ]
    /\ ret' = NoCall
    /\ UNCHANGED <<now, returned, yields>>

\* calculate_rewards, lines 54-57: 'applied_multipliers', and the return
calculate_54 ==
    /\ calc.pc = "line_54"
    /\ LET reward_breakdown ==
               [ calc.breakdown EXCEPT !.applied_multipliers =
                   _get_applied_multipliers(calc.breakdown.staking_data, now) ]
       IN  /\ ret' = [ Returned("calculate_rewards") EXCEPT
                         !.breakdown = reward_breakdown ]
           /\ returned' = [ reward_breakdown EXCEPT !.calculation_time = None ]
    /\ calc' = IdleCalc
    /\ UNCHANGED <<now, yields>>

\* the clock moves on and calculate_rewards is called, one call at a time
CalcNext ==
    \/ Tick /\ UNCHANGED <<threads, distVars, calcVars>>
    \/ \E sd \in StakingData, m \in {None} :
           calculate_44(sd, m) /\ UNCHANGED <<stakingVars, distVars>>
    \/ calculate_53 /\ UNCHANGED <<stakingVars, distVars>>
    \/ calculate_54 /\ UNCHANGED <<stakingVars, distVars>>

SpecCalc == Init /\ [][CalcNext]_vars

(* --------------------------- YieldCalculator -------------------------- *)

\* The floats of the YieldCalculator are modelled as decimal fixed-point
\* numbers of twelve fractional digits: <<i, f1, f2, f3>> stands for
\* i + f1/10^4 + f2/10^8 + f3/10^12 with 0 <= f1, f2, f3 < 10^4.  A
\* reward_rate is given as an integer number of ten-thousandths
\* (1000 = 0.10).

\* the float of an int
FromInt(i) == <<i, 0, 0, 0>>

\* the float of a reward_rate
FromRate(reward_rate) == <<reward_rate \div 10000, reward_rate % 10000, 0, 0>>

\* float * float
Mul(a, b) ==
    LET c6 == a[4] * b[4]
        c5 == a[3] * b[4] + a[4] * b[3]
        c4 == a[2] * b[4] + a[3] * b[3] + a[4] * b[2]
        c3 == a[1] * b[4] + a[2] * b[3] + a[3] * b[2] + a[4] * b[1]
        c2 == a[1] * b[3] + a[2] * b[2] + a[3] * b[1]
        c1 == a[1] * b[2] + a[2] * b[1]
        c0 == a[1] * b[1]
        t5 == c5 + c6 \div 10000
        t4 == c4 + t5 \div 10000
        t3 == c3 + t4 \div 10000
        t2 == c2 + t3 \div 10000
        t1 == c1 + t2 \div 10000
    IN  <<c0 + t1 \div 10000, t1 % 10000, t2 % 10000, t3 % 10000>>

\* float / int
DivInt(a, n) ==
    LET r1 == a[1] % n
        d2 == r1 * 10000 + a[2]
        d3 == (d2 % n) * 10000 + a[3]
        d4 == (d3 % n) * 10000 + a[4]
    IN  <<a[1] \div n, d2 \div n, d3 \div n, d4 \div n>>

\* float + int, float - int
AddInt(a, i) == <<a[1] + i, a[2], a[3], a[4]>>

\* float - reward_rate
SubRate(a, reward_rate) ==
    LET d == a[1] * 10000 + a[2] - reward_rate
    IN  <<d \div 10000, d % 10000, a[3], a[4]>>

\* float ** int
RECURSIVE Pow(_, _)
Pow(x, n) ==
    IF n = 0 THEN FromInt(1)
    ELSE IF n % 2 = 0
         THEN LET h == Pow(x, n \div 2) IN Mul(h, h)
         ELSE Mul(x, Pow(x, n - 1))

\* round(float, 2), as an integer number of hundredths: to the nearest
\* hundredth, a tie to the even one
Round2(a) ==
    LET h    == a[1] * 100 + a[2] \div 100
        rem  == a[2] % 100
        tail == a[3] # 0 \/ a[4] # 0
    IN  IF rem > 50 \/ (rem = 50 /\ (tail \/ h % 2 = 1)) THEN h + 1 ELSE h

\* the keys of YieldCalculator.COMPOUNDING_FREQUENCY in the order of the
\* dictionary
CompoundingPeriods == <<"daily", "weekly", "monthly", "quarterly", "yearly">>

\* YieldCalculator.COMPOUNDING_FREQUENCY
COMPOUNDING_FREQUENCY ==
    [ daily |-> 365, weekly |-> 52, monthly |-> 12, quarterly |-> 4,
      yearly |-> 1 ]

\* YieldCalculator._calculate_apy
_calculate_apy(rate, compounding_period) ==
    LET n == COMPOUNDING_FREQUENCY[compounding_period]
    IN  AddInt(Pow(AddInt(DivInt(FromRate(rate), n), 1), n), -1)

\* the results dictionary of calculate_optimal_compound_period; apy and
\* effective_rate are hundredths of a percent
PeriodResults(reward_rate) ==
    [ period \in DOMAIN COMPOUNDING_FREQUENCY |->
        LET apy == _calculate_apy(reward_rate, period)
        IN  [ apy            |-> Round2(Mul(apy, FromInt(100))),
              frequency      |-> COMPOUNDING_FREQUENCY[period],
              effective_rate |->
                  Round2(Mul(SubRate(apy, reward_rate), FromInt(100))) ] ]

\* mutant of MaxByApy: a later period with an equal apy replaces the
\* earlier one
MaxByApy_last(results) ==
    LET RECURSIVE Best(_, _)
        Best(i, best) ==
            IF i > Len(CompoundingPeriods) THEN best
            ELSE Best(i + 1,
                      IF results[CompoundingPeriods[i]].apy >= results[best].apy
                      THEN CompoundingPeriods[i] ELSE best)
    IN  Best(2, CompoundingPeriods[1])

\* max(results.items(), key=lambda x: x[1]['apy']): the first period, in
\* the order of the dictionary, whose apy no other exceeds
MaxByApy(results) ==
    LET RECURSIVE Best(_, _)
        Best(i, best) ==
            IF i > Len(CompoundingPeriods) THEN best
            ELSE Best(i + 1,
                      IF results[CompoundingPeriods[i]].apy > results[best].apy
                      THEN CompoundingPeriods[i] ELSE best)
    IN  Best(2, CompoundingPeriods[1])

\* no call of the YieldCalculator is inside its loop
YieldIdle == yields.pc # "loop"

\* YieldCalculator.calculate_optimal_compound_period
calculate_optimal_compound_period(reward_rate, lock_period) ==
    /\ YieldIdle
    /\ LET results == PeriodResults(reward_rate)
           optimal == MaxByApy(results)
       IN  yields' = [ op          |-> "calculate_optimal_compound_period",
                       pc          |-> "returned",
                       reward_rate |-> reward_rate,
                       lock_period |-> lock_period,
                       result      |-> [ periods         |-> results,
                                         optimal_period  |-> optimal,
                                         optimal_metrics |-> results[optimal] ] ]
    /\ UNCHANGED <<now, ret, stakingVars, distVars, calc, returned>>

\* project_yields, lines 133-137: the call is entered and its locals set
project_yields_133(principal, reward_rate, lock_period, compounding_period) ==
    /\ YieldIdle
    /\ yields' = [ op                 |-> "project_yields",
                   pc                 |-> "loop",
                   principal          |-> principal,
                   reward_rate        |-> reward_rate,
                   lock_period        |-> lock_period,
                   compounding_period |-> compounding_period,
                   day                |-> 0,
                   current_value      |-> FromInt(principal),
                   daily_projections  |-> << >>,
                   projections        |-> << >> ]
    /\ UNCHANGED <<now, ret, stakingVars, distVars, calc, returned>>

\* mutant of IsKeyPoint: the final day is not a key point of its own
IsKeyPoint_every_30(day, lock_period) == day = 0 \/ day % 30 = 0

\* project_yields, line 157: the days whose projection is a key point
IsKeyPoint(day, lock_period) ==
    day = 0 \/ day = lock_period \/ day % 30 = 0

\* project_yields, lines 140-146: the value after the day's compounding
Compounded(y) ==
    LET n == COMPOUNDING_FREQUENCY[y.compounding_period]
        daily_rate == DivInt(FromRate(y.reward_rate), 365)
        period_rate == DivInt(FromRate(y.reward_rate), n)
    IN  IF y.compounding_period = "daily"
        THEN Mul(y.current_value, AddInt(daily_rate, 1))
        ELSE IF y.day % (365 \div n) = 0
             THEN Mul(y.current_value, AddInt(period_rate, 1))
             ELSE y.current_value

\* project_yields, lines 148-153: the projection of the day; value, yield
\* and yield_percentage are hundredths
Projection(day, current_value, principal) ==
    LET gain == AddInt(current_value, -principal)
    IN  [ day              |-> day,
          value            |-> Round2(current_value),
          yield            |-> Round2(gain),
          yield_percentage |->
              Round2(Mul(DivInt(gain, principal), FromInt(100))) ]

\* project_yields, lines 139-158: one turn of the loop over
\* range(lock_period + 1); dividing by a principal of 0 raises
\* ZeroDivisionError
project_yields_139 ==
    /\ yields.pc = "loop"
    /\ yields.day <= yields.lock_period
    /\ LET current_value == Compounded(yields)
       IN  IF yields.principal = 0
           THEN yields' = [ yields EXCEPT !.pc = "raised",
                                          !.current_value = current_value ]
           ELSE LET projection == Projection(yields.day, current_value,
                                             yields.principal)
                IN  yields' =
                      [ yields EXCEPT
                          !.day = @ + 1,
                          !.current_value = current_value,
                          !.daily_projections = Append(@, projection),
                          !.projections =
                              IF IsKeyPoint(yields.day, yields.lock_period)
                              THEN Append(@, projection) ELSE @ ]
    /\ UNCHANGED <<now, ret, stakingVars, distVars, calc, returned>>

\* project_yields, lines 159-162: the loop is over and the dictionary is
\* returned
project_yields_159 ==
    /\ yields.pc = "loop"
    /\ yields.day > yields.lock_period
    /\ yields' = [ op                 |-> "project_yields",
                   pc                 |-> "returned",
                   principal          |-> yields.principal,
                   reward_rate        |-> yields.reward_rate,
                   lock_period        |-> yields.lock_period,
                   compounding_period |-> yields.compounding_period,
                   result |-> [ daily_projections |-> yields.daily_projections,
                                key_points        |-> yields.projections ] ]
    /\ UNCHANGED <<now, ret, stakingVars, distVars, calc, returned>>

\* the YieldCalculator, one call at a time
YieldNext ==
    \/ \E reward_rate \in YieldRates, lock_period \in YieldLockPeriods :
          calculate_optimal_compound_period(reward_rate, lock_period)
    \/ \E principal \in YieldPrincipals, reward_rate \in YieldRates,
          lock_period \in YieldLockPeriods,
          compounding_period \in DOMAIN COMPOUNDING_FREQUENCY :
          project_yields_133(principal, reward_rate, lock_period,
                             compounding_period)
    \/ project_yields_139
    \/ project_yields_159

SpecYield == Init /\ [][YieldNext]_vars

(* ------------------------------- claims ------------------------------- *)

\* the investor holds a position in the pool whose status is ACTIVE
HasActive(ps, pool_id, investor_address) ==
    /\ pool_id \in DOMAIN ps
    /\ investor_address \in DOMAIN ps[pool_id].positions
    /\ ps[pool_id].positions[investor_address].status = "ACTIVE"

\* C1: in every reachable state, every pool's total_staked equals the sum
\* of amount over its positions whose status is ACTIVE.
C1_SumInvariant ==
    \A p \in DOMAIN pools :
        LET active == { i \in DOMAIN pools[p].positions :
                            pools[p].positions[i].status = "ACTIVE" }
            RECURSIVE Total(_)
            Total(S) == IF S = {} THEN 0
                        ELSE LET i == CHOOSE x \in S : TRUE
                             IN  pools[p].positions[i].amount + Total(S \ {i})
        IN  pools[p].total_staked = Total(active)

\* C2: a stake call by an investor who holds an ACTIVE position in the pool
\* fails with Conflict, whatever the amount and the lock period, and leaves
\* the existing position in place.
C2_DuplicateStakeConflict ==
    [][ \A p \in DOMAIN pools, i \in Investors, r \in StakeRequests :
            (stake(p, i, r[1], r[2]) /\ HasActive(pools, p, i))
                => /\ ret'.err = "Conflict"
                   /\ pools'[p].positions[i] = pools[p].positions[i] ]_vars

\* C3: an unstake call by an investor who holds no ACTIVE position in the
\* pool fails with NotFound and changes nothing; so does a second unstake
\* after a successful one.
C3_UnstakeNeedsActive ==
    [][ \A p \in DOMAIN pools, i \in Investors :
            (unstake(p, i) /\ ~HasActive(pools, p, i))
                => /\ ret'.err = "NotFound"
                   /\ pools' = pools ]_vars

\* C4: for an ACTIVE position, unstake at any instant before
\* start_time + lock_period days fails with LockedError, and unstake at that
\* instant or later succeeds.
C4_LockGate ==
    [][ \A p \in DOMAIN pools, i \in Investors :
            (unstake(p, i) /\ HasActive(pools, p, i))
                => LET position == pools[p].positions[i]
                       boundary == position.start_time
                                     + position.lock_period * TicksPerDay
                   IN  /\ now < boundary => ret'.err = "LockedError"
                       /\ now >= boundary => ret'.err = "ok" ]_vars

\* C4 witness: an unstake has just succeeded at exactly
\* start_time + lock_period days.
C4_UnstakedAtBoundary ==
    /\ ret.op = "unstake"
    /\ ret.err = "ok"
    /\ \E p \in DOMAIN pools : \E i \in DOMAIN pools[p].positions :
           /\ pools[p].positions[i].status = "UNSTAKING"
           /\ now = pools[p].positions[i].start_time
                      + pools[p].positions[i].lock_period * TicksPerDay

\* C5: on a registered pool, stake raises OutOfRange exactly when the amount
\* is below min_stake or above max_stake; min_stake and max_stake themselves
\* are accepted.
C5_AmountRangeInclusive ==
    [][ \A p \in DOMAIN pools, i \in Investors, r \in StakeRequests :
            stake(p, i, r[1], r[2])
                => (ret'.err = "OutOfRange"
                        <=> ~(pools[p].min_stake <= r[1]
                                /\ r[1] <= pools[p].max_stake)) ]_vars

\* C5 witness: a stake of exactly max_stake has just been accepted.
C5_StakedAtMax ==
    /\ ret.op = "stake"
    /\ ret.err = "ok"
    /\ \E p \in DOMAIN pools : \E i \in DOMAIN pools[p].positions :
           /\ pools[p].positions[i].amount = pools[p].max_stake
           /\ pools[p].positions[i].start_time = now

\* the multiplier, in tenths, the specification's table gives a lock period
C6_Multiplier(lock_period) ==
    CASE lock_period = 30 -> 10
      [] lock_period = 90 -> 12
      [] lock_period = 180 -> 15
      [] lock_period = 360 -> 20

\* C6: a stake that succeeds leaves the investor with an ACTIVE position of
\* the given amount, with reward_rate = base_reward_rate * multiplier(lock
\* period), start_time = now and accumulated_rewards = 0, and raises the
\* pool's total_staked by exactly the amount.
C6_StakeEffect ==
    [][ \A p \in DOMAIN pools, i \in Investors, r \in StakeRequests :
            (stake(p, i, r[1], r[2]) /\ ret'.err = "ok")
                => LET position == pools'[p].positions[i]
                   IN  /\ position.status = "ACTIVE"
                       /\ position.amount = r[1]
                       /\ position.lock_period = r[2]
                       /\ position.reward_rate
                            = pools[p].base_reward_rate * C6_Multiplier(r[2])
                       /\ position.start_time = now
                       /\ position.accumulated_rewards = 0
                       /\ pools'[p].total_staked = pools[p].total_staked + r[1] ]_vars

\* C6 witness: a stake with the 360-day lock has just succeeded on a pool
\* whose base rate is 0.10, so the position's rate is 0.20.
C6_StakedLongLock ==
    /\ ret.op = "stake"
    /\ ret.err = "ok"
    /\ \E p \in DOMAIN pools : \E i \in DOMAIN pools[p].positions :
           /\ pools[p].positions[i].start_time = now
           /\ pools[p].positions[i].lock_period = 360
           /\ pools[p].positions[i].reward_rate = 2000

\* C7: an unstake that succeeds leaves the position UNSTAKING, lowers the
\* pool's total_staked by exactly the position's amount, and returns
\* principal = amount and total = principal + rewards; an unstake of a
\* position that is no longer ACTIVE pays a reward of zero.
C7_UnstakeEffect ==
    [][ \A p \in DOMAIN pools, i \in Investors :
            (unstake(p, i) /\ ret'.err = "ok")
                => LET before == pools[p].positions[i]
                   IN  /\ pools'[p].positions[i].status = "UNSTAKING"
                       /\ pools'[p].total_staked
                            = pools[p].total_staked - before.amount
                       /\ ret'.principal = before.amount
                       /\ (ret'.total.units - ret'.principal) * (10 ^ RewardDecimals)
                            + ret'.total.millionths = ret'.rewards
                       /\ before.status # "ACTIVE" => ret'.rewards = 0 ]_vars

\* C7 witness: an unstake has just paid a reward above zero.
C7_UnstakedWithReward ==
    /\ ret.op = "unstake"
    /\ ret.err = "ok"
    /\ ret.rewards > 0
    /\ \E p \in DOMAIN pools : \E i \in DOMAIN pools[p].positions :
           /\ pools[p].positions[i].status = "UNSTAKING"
           /\ pools[p].positions[i].amount = ret.principal

\* C8: the reward an unstake of an ACTIVE position returns is
\* amount * (reward_rate / 365) * days rounded to six decimals, days being
\* the whole days from last_claim_time, or start_time when there is none,
\* to now: with n = amount * reward_rate * days and the rate in
\* ten-thousandths, the reward in millionths is the integer nearest to
\* 100 * n / 365 (365 is odd, so there is no tie).  On the pool
\* (100, 10000, 0.10), 1000 staked for 90 days and unstaked after exactly 90
\* days returns rewards 29.589041 and total 1029.589041.
C8_RewardFormula ==
    [][ \A p \in DOMAIN pools, i \in Investors :
            (unstake(p, i) /\ ret'.err = "ok" /\ HasActive(pools, p, i))
                => LET position == pools[p].positions[i]
                       since == IF position.last_claim_time = None
                                THEN position.start_time
                                ELSE position.last_claim_time
                       days == (now - since) \div TicksPerDay
                       n == position.amount * position.reward_rate * days
                       q == n \div 365
                       r == n % 365
                       rest == ret'.rewards - 100 * q
                       off == 365 * rest - 100 * r
                   IN  /\ 2 * off < 365
                       /\ -2 * off < 365
                       /\ ( /\ pools[p].min_stake = 100
                            /\ pools[p].max_stake = 10000
                            /\ pools[p].base_reward_rate = 100
                            /\ position.amount = 1000
                            /\ position.lock_period = 90
                            /\ now = position.start_time + 90 * TicksPerDay )
                          => /\ position.reward_rate = 1200
                             /\ ret'.rewards = 29589041
                             /\ ret'.total = [units |-> 1029, millionths |-> 589041]
                     ]_vars

\* C8 witness: the scenario's unstake has just returned, exactly 90 days
\* after the stake.
C8_ScenarioUnstaked ==
    /\ ret.op = "unstake"
    /\ ret.err = "ok"
    /\ ret.principal = 1000
    /\ ret.rewards = 29589041
    /\ \E p \in DOMAIN pools : \E i \in DOMAIN pools[p].positions :
           /\ pools[p].min_stake = 100
           /\ pools[p].max_stake = 10000
           /\ pools[p].base_reward_rate = 100
           /\ pools[p].positions[i].amount = 1000
           /\ pools[p].positions[i].lock_period = 90
           /\ pools[p].positions[i].status = "UNSTAKING"
           /\ now = pools[p].positions[i].start_time + 90 * TicksPerDay

\* C9: a stake or unstake call that raises leaves every pool, its
\* total_staked and its positions, exactly as before the call.
C9_AllOrNothing ==
    [][ (ret'.op \in {"stake", "unstake"} /\ ret'.err # "ok")
            => pools' = pools ]_vars

\* C9 witness: a stake with an invalid lock period has just been refused on
\* a pool that accepts the amount.
C9_RefusedLockPeriod ==
    /\ ret.op = "stake"
    /\ ret.err = "InvalidLockPeriod"
    /\ \E p \in DOMAIN pools : ~AmountOutOfRange(pools[p], 1000)

\* C10: create_pool called with min_stake <= 0, max_stake < min_stake or
\* base_reward_rate < 0 fails with ConfigError and registers no pool.
C10_ConfigRejected ==
    [][ \A b \in Businesses, c \in PoolConfigs :
            (create_pool(b, c[1], c[2], c[3])
                /\ (c[1] <= 0 \/ c[2] < c[1] \/ c[3] < 0))
                => /\ ret'.err = "ConfigError"
                   /\ pools' = pools ]_vars

\* C11: every create_pool call that returns registers its pool under an id
\* that no registered pool holds, so that each successful call raises the
\* number of registered pools by one, a second call for the same business
\* on the same day included.
C11_FreshPoolId ==
    [][ \A b \in Businesses, c \in PoolConfigs :
            (create_pool(b, c[1], c[2], c[3]) /\ ret'.err = "ok")
                => /\ PoolId(b, now) \notin DOMAIN pools
                   /\ Cardinality(DOMAIN pools') = Cardinality(DOMAIN pools) + 1
      ]_vars

\* the configuration and business a pool was created with
PoolConfig(pool) ==
    <<pool.business_id, pool.min_stake, pool.max_stake, pool.base_reward_rate>>

\* C12: once a pool id is registered, the min_stake, max_stake,
\* base_reward_rate and business stored under it are the same after every
\* later create_pool, stake, unstake and get_pool_stats call.
C12_ConfigImmutable ==
    [][ \A p \in DOMAIN pools :
            /\ p \in DOMAIN pools'
            /\ PoolConfig(pools'[p]) = PoolConfig(pools[p]) ]_vars

\* the status changes the specification allows a position
StatusEdges ==
    { <<"ACTIVE", "UNSTAKING">>, <<"UNSTAKING", "COMPLETED">>,
      <<"ACTIVE", "CANCELLED">> }

\* b is the position a with another status: the StakingPosition object that
\* stake built is the same, only its status field was assigned
SamePosition(a, b) == [b EXCEPT !.status = a.status] = a

\* C13: a step that changes the status of a position changes it from
\* ACTIVE to UNSTAKING, from UNSTAKING to COMPLETED or from ACTIVE to
\* CANCELLED; no position that has left ACTIVE is ACTIVE again, and a
\* COMPLETED or CANCELLED position keeps its status.
C13_StatusEdges ==
    [][ \A p \in DOMAIN pools \cap DOMAIN pools' :
          \A i \in DOMAIN pools[p].positions \cap DOMAIN pools'[p].positions :
            LET a == pools[p].positions[i]
                b == pools'[p].positions[i]
            IN  (SamePosition(a, b) /\ a.status # b.status)
                    => <<a.status, b.status>> \in StatusEdges ]_vars

\* C13 witness: a position left ACTIVE for UNSTAKING and a second unstake
\* of it has just returned, the position still UNSTAKING.
C13_UnstakedTwice ==
    /\ ret.op = "unstake"
    /\ ret.err = "ok"
    /\ ret.rewards = 0
    /\ \E p \in DOMAIN pools : \E i \in DOMAIN pools[p].positions :
           /\ pools[p].positions[i].status = "UNSTAKING"
           /\ pools[p].total_staked = 0 - pools[p].positions[i].amount

\* some operation of the system takes the position of the investor in the
\* pool to the status
CanMoveTo(pool_id, investor_address, status) ==
    ENABLED ( /\ Next
              /\ pool_id \in DOMAIN pools'
              /\ investor_address \in DOMAIN pools'[pool_id].positions
              /\ pools'[pool_id].positions[investor_address].status = status )

\* C14: the lifecycle completes: for every UNSTAKING position an operation
\* of the system (the acknowledged settlement) moves it to COMPLETED, and
\* for every ACTIVE position one (the administrative cancel) moves it to
\* CANCELLED, so that COMPLETED and CANCELLED are reached.
C14_LifecycleCompletes ==
    \A p \in DOMAIN pools : \A i \in DOMAIN pools[p].positions :
        /\ pools[p].positions[i].status = "UNSTAKING"
               => CanMoveTo(p, i, "COMPLETED")
        /\ pools[p].positions[i].status = "ACTIVE"
               => CanMoveTo(p, i, "CANCELLED")

\* C15: stake and unstake calls on one pool exclude each other, so no
\* update of total_staked is lost: when a call writes total_staked, the
\* new value is the value total_staked has at that moment plus the staked
\* amount, or minus the unstaked amount, as in a serial order of the calls.
C15_NoLostUpdate ==
    [][ \A t \in Threads :
            LET p == threads[t].pool_id
                amount == threads[t].position.amount
            IN  /\ stake_108_store(t)
                      => pools'[p].total_staked = pools[p].total_staked + amount
                /\ unstake_134_store(t)
                      => pools'[p].total_staked = pools[p].total_staked - amount
      ]_vars

\* C16: get_pool_stats changes nothing; it fails with NotFound for a pool
\* that is not registered; otherwise the total_staked it returns is the sum
\* of the ACTIVE amounts, its average times its number of ACTIVE positions
\* is that total, and the average is 0 when no position is ACTIVE, also
\* while stake and unstake calls are in progress.
C16_ConsistentSnapshot ==
    [][ \A p \in PoolIdInputs :
            get_pool_stats(p) =>
                /\ pools' = pools
                /\ p \notin DOMAIN pools => ret'.err = "NotFound"
                /\ p \in DOMAIN pools =>
                       LET stats == ret'.stats IN
                       /\ ret'.err = "ok"
                       /\ stats.total_staked = ActiveSum(pools[p])
                       /\ stats.active_positions = ActivePositions(pools[p])
                       /\ stats.active_positions > 0 =>
                              Money(stats.avg_stake.units * stats.active_positions,
                                    stats.avg_stake.millionths * stats.active_positions)
                                  = Money(stats.total_staked, 0)
                       /\ stats.active_positions = 0 =>
                              stats.avg_stake = Money(0, 0)
      ]_vars

\* the statuses an event is left with
Settled == {"COMPLETED", "FAILED"}

\* C17: every event distribute_rewards returns and every event stored in
\* reward_events or in a pool's distribution history has the status
\* COMPLETED or FAILED, never PENDING.
C17_NeverPending ==
    /\ \A k \in 1..Len(reward_events) : reward_events[k].status \in Settled
    /\ \A p \in DOMAIN distribution_history :
           \A k \in 1..Len(distribution_history[p]) :
               distribution_history[p][k].status \in Settled
    /\ ret.op = "distribute_rewards" =>
           \A k \in 1..Len(ret.events) : ret.events[k].status \in Settled

\* C17 witness: distribute_rewards has just returned the two events of a
\* batch, both of them stored.
C17_BatchReturned ==
    /\ ret.op = "distribute_rewards"
    /\ ret.err = "ok"
    /\ Len(ret.events) = 2
    /\ \A k \in 1..2 :
           /\ \E j \in 1..Len(reward_events) : reward_events[j] = ret.events[k]
           /\ \E p \in DOMAIN distribution_history :
                  \E j \in 1..Len(distribution_history[p]) :
                      distribution_history[p][j] = ret.events[k]

\* C18: for each entry of a batch the settlement capability is invoked
\* exactly once: the calls made on the ledger client are as many as the
\* events whose distribution has been attempted, recorded or about to be
\* recorded.
C18_SettledOncePerEntry ==
    algod_calls = Len(reward_events)
                    + Cardinality({ d \in Distributors :
                                        distributors[d].pc = "line_84" })

\* C19: an event's status changes once, from PENDING to COMPLETED or
\* FAILED, and an event that is recorded stays, field for field, the event
\* that was recorded, whatever distribute_rewards and
\* get_distribution_history calls follow.
C19_RecordedEventsFrozen ==
    [][ /\ \A k \in 1..Len(reward_events) :
              /\ k <= Len(reward_events')
              /\ reward_events'[k] = reward_events[k]
        /\ \A d \in Distributors :
              LET a == distributors[d].event
                  b == distributors'[d].event
              IN  ([b EXCEPT !.status = a.status] = a /\ a.status # b.status)
                      => (a.status = "PENDING" /\ b.status \in Settled)
      ]_vars

\* C19 witness: two events were recorded at different instants and
\* get_distribution_history has just returned them, the later one first.
C19_HistoryReadBack ==
    /\ Len(reward_events) = 2
    /\ reward_events[1].timestamp < reward_events[2].timestamp
    /\ ret.op = "get_distribution_history"
    /\ ret.events = <<reward_events[2], reward_events[1]>>

\* the timestamps of the events do not decrease along the list
TimestampOrdered(events) ==
    \A j, k \in 1..Len(events) :
        j <= k => events[j].timestamp <= events[k].timestamp

\* C20: under every interleaving of distribute_rewards calls each pool's
\* distribution history only grows at its end, no event of it removed or
\* moved, and is ordered by non-decreasing timestamp.
C20_HistoryAppendOnlyOrdered ==
    [][ \A p \in DOMAIN distribution_history :
            LET before == distribution_history[p]
                after == distribution_history'[p]
            IN  /\ p \in DOMAIN distribution_history'
                /\ Len(before) <= Len(after)
                /\ SubSeq(after, 1, Len(before)) = before
                /\ TimestampOrdered(after) ]_vars

\* C21: after any sequence of distribute_rewards calls no two recorded
\* events have the same event_id, events built within one clock second
\* included.
C21_UniqueEventIds ==
    \A j, k \in 1..Len(reward_events) :
        j # k => reward_events[j].event_id # reward_events[k].event_id

\* C21 witness: two events built at the same instant are recorded.
C21_SameSecondEvents ==
    \E j, k \in 1..Len(reward_events) :
        /\ j < k
        /\ reward_events[j].timestamp = reward_events[k].timestamp

\* the recorded event matches the filters of a get_distribution_history
\* call
Matches(e, pool_id, start_date, end_date) ==
    /\ pool_id = NoPool \/ e.pool_id = pool_id
    /\ start_date = None \/ start_date <= e.timestamp
    /\ end_date = None \/ e.timestamp <= end_date

\* C22: get_distribution_history changes no stored event or list and
\* returns exactly the recorded events of the given pool (of all pools when
\* none is given, none for a pool without history) whose timestamp lies
\* within the given bounds, each once, in descending order of timestamp.
C22_FilteredRead ==
    [][ \A q \in HistoryQueries :
            (DistQuiescent /\ get_distribution_history(q[1], q[2], q[3])) =>
                LET out == ret'.events
                    hits == { k \in 1..Len(reward_events) :
                                  Matches(reward_events[k], q[1], q[2], q[3]) }
                IN  /\ UNCHANGED <<distVars, calcVars>>
                    /\ Len(out) = Cardinality(hits)
                    /\ \A k \in hits :
                           \E j \in 1..Len(out) : out[j] = reward_events[k]
                    /\ \A i, j \in 1..Len(out) :
                           i < j => out[i].timestamp >= out[j].timestamp ]_vars

\* C22 witness: two events of one pool are recorded at different instants
\* and get_distribution_history has just returned the later one alone.
C22_LaterEventOnly ==
    /\ Len(reward_events) = 2
    /\ reward_events[1].pool_id = reward_events[2].pool_id
    /\ reward_events[1].timestamp < reward_events[2].timestamp
    /\ ret.op = "get_distribution_history"
    /\ ret.events = <<reward_events[2]>>

\* what an event takes from its reward_data and its call
EntryOf(e) == <<e.reward_type, e.amount, e.recipient, e.pool_id>>

\* the same of a reward_data of a call for the pool
EntryOfData(reward_data, pool_id) ==
    <<TypeOf(reward_data), reward_data.amount, reward_data.recipient, pool_id>>

\* the entries of the batch of the call in progress on the thread: those
\* whose events are in distributed_events, the one whose event is being
\* built, and those still in rewards_data
BatchOf(ds, d) ==
    LET self == ds[d]
    IN  [k \in 1..Len(self.distributed_events) |->
            EntryOf(self.distributed_events[k])]
        \o (IF self.pc \in {"line_79", "line_84"}
            THEN <<EntryOf(self.event)>> ELSE << >>)
        \o [k \in 1..Len(self.rewards_data) |->
                EntryOfData(self.rewards_data[k], self.pool_id)]

\* the number of places of the list that hold the event
Occurrences(events, e) == Cardinality({ k \in 1..Len(events) : events[k] = e })

\* C30: a distribute_rewards call that returns normally returns one event
\* per entry of its batch, in the order of the batch; and between calls
\* every recorded event is once in reward_events, once in the history of
\* its own pool and in no other history, so that reward_events is as long
\* as all histories together.
C30_Bookkeeping ==
    [][ /\ \A d \in Distributors, p \in DistPools, b \in Batches :
              distribute_begin(d, p, b) =>
                  BatchOf(distributors', d) =
                      [k \in 1..Len(b) |-> EntryOfData(b[k], p)]
        /\ \A d \in Distributors :
              (distributors[d].pc # "idle" /\ distributors'[d].pc # "idle")
                  => BatchOf(distributors', d) = BatchOf(distributors, d)
        /\ \A d \in Distributors :
              (distributors[d].pc # "idle" /\ ret'.op = "distribute_rewards"
                    /\ ret'.err = "ok" /\ distributors'[d].pc = "idle")
                  => [k \in 1..Len(ret'.events) |-> EntryOf(ret'.events[k])]
                         = BatchOf(distributors, d)
        /\ DistQuiescent' =>
              /\ \A k \in 1..Len(reward_events') :
                     LET e == reward_events'[k] IN
                     /\ Occurrences(reward_events', e) = 1
                     /\ \A p \in DOMAIN distribution_history' :
                            Occurrences(distribution_history'[p], e)
                                = IF p = e.pool_id THEN 1 ELSE 0
                     /\ e.pool_id \in DOMAIN distribution_history'
              /\ \A p \in DOMAIN distribution_history' :
                     \A k \in 1..Len(distribution_history'[p]) :
                         Occurrences(reward_events',
                                     distribution_history'[p][k]) = 1
      ]_vars

\* C30 witness: events are recorded for two pools and distribute_rewards
\* has just returned the event of its one entry.
C30_TwoPoolsRecorded ==
    /\ ret.op = "distribute_rewards"
    /\ ret.err = "ok"
    /\ Len(ret.events) = 1
    /\ Len(reward_events) = 2
    /\ reward_events[1].pool_id # reward_events[2].pool_id
    /\ DOMAIN distribution_history = DistPools

\* C28: in every state reached by stake and unstake calls, repeated unstake
\* calls of one investor and stakes after an unstake included, the
\* total_staked of a pool with min_stake > 0 is not negative.
C28_TotalNeverNegative ==
    \A p \in DOMAIN pools :
        pools[p].min_stake > 0 => pools[p].total_staked >= 0

\* the bonus contributions of the specification, in hundredths, of the
\* predicates that hold for the staking_data at the instant t
Contributions(staking_data, t) ==
    (IF t - staking_data.start_time <= 30 * TicksPerDay THEN 20 ELSE 0)
  + (IF staking_data.amount >= 10000 THEN 15 ELSE 0)
  + (IF LockPeriodOf(staking_data) >= 180 THEN 25 ELSE 0)

\* C23: bonus_reward is base_reward times the sum of the contributions of
\* the predicates that hold (0.20 early adopter, 0.15 large stake, 0.25
\* long term), each taken of base_reward and none of another bonus;
\* total_reward is base_reward + bonus_reward; with all three predicates
\* bonus_reward is base_reward times 0.60.
C23_BonusAdditive ==
    [][ /\ \A sd \in StakingData :
              calculate_44(sd, None) =>
                  LET b == calc'.breakdown
                      c == Contributions(sd, now)
                  IN  /\ b.base_reward % 100 = 0
                      /\ b.bonus_reward = (b.base_reward \div 100) * c
                      /\ b.total_reward = b.base_reward + b.bonus_reward
        /\ calculate_54 =>
              LET b == ret'.breakdown
              IN  /\ b.total_reward = b.base_reward + b.bonus_reward
                  /\ b.base_reward = calc.breakdown.base_reward
                  /\ b.bonus_reward = calc.breakdown.bonus_reward ]_vars

\* C23 witness: calculate_rewards has just returned the breakdown of a
\* position that meets all three conditions, its bonus 0.60 of its base.
C23_AllThreeBonuses ==
    /\ ret.op = "calculate_rewards"
    /\ ret.breakdown.base_reward > 0
    /\ ret.breakdown.bonus_reward = (ret.breakdown.base_reward \div 100) * 60
    /\ DOMAIN ret.breakdown.applied_multipliers =
           {"early_adopter", "large_stake", "long_term"}

\* C24 as stated: the applied_multipliers of every calculate_rewards
\* result has an entry for each of the three predicates, those that did
\* not apply included.
C24_AllThreeRecorded ==
    ret.op = "calculate_rewards" =>
        DOMAIN ret.breakdown.applied_multipliers =
            {"early_adopter", "large_stake", "long_term"}

\* C24: every eligibility check is made on every call: the
\* applied_multipliers of a calculate_rewards result holds exactly the
\* predicates that hold when the list is built, each with its multiplier
\* of bonus_multipliers, and no entry for a predicate that does not hold.
C24_AppliedRecorded ==
    [][ calculate_54 =>
            LET sd == calc.breakdown.staking_data
                applied == ret'.breakdown.applied_multipliers
            IN  /\ ("early_adopter" \in DOMAIN applied)
                       <=> (now - sd.start_time <= 30 * TicksPerDay)
                /\ ("large_stake" \in DOMAIN applied) <=> (sd.amount >= 10000)
                /\ ("long_term" \in DOMAIN applied)
                       <=> (LockPeriodOf(sd) >= 180)
                /\ \A k \in DOMAIN applied : applied[k] = bonus_multipliers[k]
      ]_vars

\* C24 witness: calculate_rewards has just returned a result whose
\* applied_multipliers holds two of the three multipliers.
C24_TwoOfThree ==
    /\ ret.op = "calculate_rewards"
    /\ DOMAIN ret.breakdown.applied_multipliers = {"early_adopter", "long_term"}

\* C27: calculate_rewards is pure: a call with the staking_data of the
\* call that returned before it returns the same base_reward,
\* bonus_reward, total_reward and applied_multipliers, whenever it is made,
\* and changes no distributor, pool or position.
C27_SameInputSameResult ==
    [][ calculate_54 =>
            /\ returned.staking_data = calc.breakdown.staking_data
                   => returned' = returned
            /\ UNCHANGED <<pools, distVars>> ]_vars

\* the sum of m - 1, in hundredths, over the multipliers m of the dictionary
MultiplierSum(multipliers) ==
    LET RECURSIVE Sum(_)
        Sum(S) == IF S = {} THEN 0
                  ELSE LET k == CHOOSE x \in S : TRUE
                       IN  (multipliers[k] - 100) + Sum(S \ {k})
    IN  Sum(DOMAIN multipliers)

\* C29: in every calculate_rewards result bonus_reward is base_reward times
\* the sum of m - 1 over the multipliers m that applied_multipliers lists,
\* also when the clock passes the 30-day boundary of the early-adopter
\* predicate during the call.
C29_BonusMatchesMultipliers ==
    ret.op = "calculate_rewards" =>
        ret.breakdown.bonus_reward =
            (ret.breakdown.base_reward \div 100)
                * MultiplierSum(ret.breakdown.applied_multipliers)

\* C25: calculate_optimal_compound_period returns "daily" as
\* optimal_period for every reward_rate > 0; the period returned has an apy
\* that none of daily, weekly, monthly, quarterly and yearly exceeds, and
\* among periods of equal apy it is the first in the order of
\* COMPOUNDING_FREQUENCY, also at a reward_rate of 0.
C25_DailyOptimal ==
    yields.op = "calculate_optimal_compound_period" =>
        LET periods == yields.result.periods
            optimal == yields.result.optimal_period
            Index(p) == CHOOSE i \in 1..5 : CompoundingPeriods[i] = p
        IN  /\ DOMAIN periods =
                 {"daily", "weekly", "monthly", "quarterly", "yearly"}
            /\ \A p \in DOMAIN periods : periods[p].apy <= periods[optimal].apy
            /\ \A p \in DOMAIN periods :
                   periods[p].apy = periods[optimal].apy
                       => Index(optimal) <= Index(p)
            /\ yields.result.optimal_metrics = periods[optimal]
            /\ yields.reward_rate > 0 => optimal = "daily"

\* C25 witness: calculate_optimal_compound_period has returned "daily" for
\* a positive reward_rate whose rounded apy is the same for daily and
\* yearly compounding, and for none is it 0.
C25_TieAtPositiveRate ==
    /\ yields.op = "calculate_optimal_compound_period"
    /\ yields.reward_rate > 0
    /\ yields.result.periods["daily"].apy > 0
    /\ yields.result.periods["daily"].apy = yields.result.periods["yearly"].apy
    /\ yields.result.optimal_period = "daily"

\* the days of a list of projections
DaysOfProjections(projections) ==
    [ i \in 1..Len(projections) |-> projections[i].day ]

\* C26: project_yields returns daily_projections with one entry per day
\* for day = 0..lock_period in increasing order, lock_period + 1 entries,
\* and key_points is the subsequence of these entries whose day is 0, the
\* final day or a multiple of 30, each of them once.
C26_ProjectionDays ==
    (yields.op = "project_yields" /\ yields.pc = "returned") =>
        LET daily == yields.result.daily_projections
            key   == yields.result.key_points
            IsKey(e) == \/ e.day = 0
                        \/ e.day = yields.lock_period
                        \/ e.day % 30 = 0
        IN  /\ Len(daily) = yields.lock_period + 1
            /\ \A i \in 1..Len(daily) : daily[i].day = i - 1
            /\ key = SelectSeq(daily, IsKey)
            /\ \A i, j \in 1..Len(key) : i < j => key[i].day < key[j].day

\* C26 witness: project_yields has returned for a lock period of 31 days,
\* a positive principal and a positive rate: 32 daily entries, the key
\* points those of the days 0, 30 and 31, and the value grown.
C26_ThirtyOneDays ==
    /\ yields.op = "project_yields"
    /\ yields.pc = "returned"
    /\ yields.lock_period = 31
    /\ Len(yields.result.daily_projections) = 32
    /\ DaysOfProjections(yields.result.key_points) = <<0, 30, 31>>
    /\ yields.result.key_points[3].yield > 0

====
